---- MODULE Spec2Model ----
(***************************************************************************)
(* A model of pv_app.py: the synthetic forecast generator                  *)
(* SimplePVForecast.forecast, and the Streamlit script that runs it on a   *)
(* form submission, stores the result in st.session_state and renders the  *)
(* statistics, the rounded table and the CSV export from it.               *)
(*                                                                         *)
(* The generator computes in IEEE-754 binary64.  A binary64 value is       *)
(* modelled exactly, as a mantissa and a binary exponent; the mantissa is  *)
(* a natural number of 53 bits kept as a sequence of limbs, because the    *)
(* integers of the checker are 32 bits wide.  Only zero and the positive   *)
(* normal numbers are modelled: the application's sliders give a positive  *)
(* capacity and performance ratio, and no value of the program leaves the  *)
(* normal range.                                                           *)
(***************************************************************************)
EXTENDS Integers, Sequences, FiniteSets, TLC

\* ------------------------------------------------------------------------
\* Natural numbers of any size: little-endian sequences of limbs, without
\* leading (high) zero limbs; zero is the empty sequence.

LimbBits == 2 * 7
LimbBase == 2 ^ LimbBits

NatZero == << >>

RECURSIVE NatNorm(_)
NatNorm(a) ==
    IF a = << >> THEN << >>
    ELSE IF a[Len(a)] = 0 THEN NatNorm(SubSeq(a, 1, Len(a) - 1))
    ELSE a

RECURSIVE NatFromInt(_)
NatFromInt(n) ==
    IF n = 0 THEN << >>
    ELSE << n % LimbBase >> \o NatFromInt(n \div LimbBase)

\* a * k + c, for a small k (k < 2^16) and carry c
RECURSIVE NatMulSmallC(_, _, _)
NatMulSmallC(a, k, c) ==
    IF a = << >> THEN NatFromInt(c)
    ELSE LET t == a[1] * k + c
         IN  << t % LimbBase >> \o NatMulSmallC(Tail(a), k, t \div LimbBase)

NatMulSmall(a, k) == IF k = 0 THEN << >> ELSE NatMulSmallC(a, k, 0)

\* quotient (not normalised) and remainder of a by a small d (d < 2^16)
RECURSIVE NatDivModRaw(_, _)
NatDivModRaw(a, d) ==
    IF a = << >> THEN [q |-> << >>, r |-> 0]
    ELSE LET hi  == NatDivModRaw(Tail(a), d)
             cur == hi.r * LimbBase + a[1]
         IN  [q |-> << cur \div d >> \o hi.q, r |-> cur % d]

NatDivMod(a, d) ==
    LET qr == NatDivModRaw(a, d) IN [q |-> NatNorm(qr.q), r |-> qr.r]

RECURSIVE NatAddC(_, _, _)
NatAddC(a, b, c) ==
    IF a = << >> /\ b = << >> THEN NatFromInt(c)
    ELSE LET x == IF a = << >> THEN 0 ELSE a[1]
             y == IF b = << >> THEN 0 ELSE b[1]
             t == x + y + c
         IN  << t % LimbBase >>
               \o NatAddC(IF a = << >> THEN a ELSE Tail(a),
                          IF b = << >> THEN b ELSE Tail(b), t \div LimbBase)

NatAdd(a, b) == NatAddC(a, b, 0)

\* -1, 0, 1 as a < b, a = b, a > b
RECURSIVE NatCmpFrom(_, _, _)
NatCmpFrom(a, b, i) ==
    IF i = 0 THEN 0
    ELSE IF a[i] < b[i] THEN -1
    ELSE IF a[i] > b[i] THEN 1
    ELSE NatCmpFrom(a, b, i - 1)

NatCmp(a, b) ==
    IF Len(a) < Len(b) THEN -1
    ELSE IF Len(a) > Len(b) THEN 1
    ELSE NatCmpFrom(a, b, Len(a))

\* a - b - c for a >= b + c (borrow c in 0..1), not normalised
RECURSIVE NatSubRaw(_, _, _)
NatSubRaw(a, b, c) ==
    IF a = << >> THEN << >>
    ELSE LET y == IF b = << >> THEN 0 ELSE b[1]
             t == a[1] - y - c
         IN  << IF t < 0 THEN t + LimbBase ELSE t >>
               \o NatSubRaw(Tail(a), IF b = << >> THEN b ELSE Tail(b),
                            IF t < 0 THEN 1 ELSE 0)

NatSub(a, b) == NatNorm(NatSubRaw(a, b, 0))

RECURSIVE NatMul(_, _)
NatMul(a, b) ==
    IF a = << >> \/ b = << >> THEN << >>
    ELSE LET rest == NatMul(a, Tail(b))
         IN  NatAdd(NatMulSmall(a, b[1]),
                    IF rest = << >> THEN << >> ELSE << 0 >> \o rest)

RECURSIVE IntBitLen(_)
IntBitLen(n) == IF n = 0 THEN 0 ELSE 1 + IntBitLen(n \div 2)

NatBitLen(a) ==
    IF a = << >> THEN 0
    ELSE (Len(a) - 1) * LimbBits + IntBitLen(a[Len(a)])

NatShl(a, n) ==
    IF a = << >> THEN << >>
    ELSE [i \in 1..(n \div LimbBits) |-> 0] \o NatMulSmall(a, 2 ^ (n % LimbBits))

NatShr(a, n) ==
    IF n \div LimbBits >= Len(a) THEN << >>
    ELSE NatDivMod(SubSeq(a, n \div LimbBits + 1, Len(a)), 2 ^ (n % LimbBits)).q

\* bit i (bit 0 is the lowest) of a
NatBit(a, i) ==
    IF i \div LimbBits >= Len(a) THEN 0
    ELSE (a[i \div LimbBits + 1] \div 2 ^ (i % LimbBits)) % 2

\* whether some bit below bit n of a is set
NatLowBits(a, n) ==
    \E i \in 1..Len(a) :
        /\ a[i] # 0
        /\ \/ i <= n \div LimbBits
           \/ i = n \div LimbBits + 1 /\ a[i] % 2 ^ (n % LimbBits) # 0

NatIsOdd(a) == a # << >> /\ a[1] % 2 = 1

\* ------------------------------------------------------------------------
\* IEEE-754 binary64 (round to nearest, ties to even).  A value is
\* [m |-> mantissa, e |-> exponent], standing for m * 2^e, with m = 0 and
\* e = 0 for zero and 2^52 <= m < 2^53 otherwise.

MantBits == 52 + 1

DZero == [m |-> << >>, e |-> 0]

IsZero(d) == d.m = << >>

\* The binary64 nearest the real number r with n * 2^e <= r < (n + 1) * 2^e,
\* r = n * 2^e unless sticky; n > 0.  Two guard bits are made first, so the
\* bits rounded away always hold the half bit and the sticky flag decides
\* only below it.
RoundToDouble(n, e, sticky) ==
    LET bl   == NatBitLen(n)
        pre  == IF bl < MantBits + 2 THEN MantBits + 2 - bl ELSE 0
        nn   == NatShl(n, pre)
        s    == bl + pre - MantBits
        q    == NatShr(nn, s)
        half == NatBit(nn, s - 1) = 1
        low  == sticky \/ NatLowBits(nn, s - 1)
        up   == half /\ (low \/ NatIsOdd(q))
        r    == IF up THEN NatAdd(q, NatFromInt(1)) ELSE q
    IN  IF NatBitLen(r) > MantBits
        THEN [m |-> NatShr(r, 1), e |-> e - pre + s + 1]
        ELSE [m |-> r, e |-> e - pre + s]

\* float(n) of a Python int n >= 0
DFromInt(n) ==
    IF n = 0 THEN DZero ELSE RoundToDouble(NatFromInt(n), 0, FALSE)

DMul(a, b) ==
    IF IsZero(a) \/ IsZero(b) THEN DZero
    ELSE RoundToDouble(NatMul(a.m, b.m), a.e + b.e, FALSE)

\* a / d for a small integer divisor d (0 < d < 2^15)
DDivInt(a, d) ==
    IF IsZero(a) THEN DZero
    ELSE LET qr == NatDivMod(NatShl(a.m, 2 * LimbBits), d)
         IN  RoundToDouble(qr.q, a.e - 2 * LimbBits, qr.r # 0)

DAdd(a, b) ==
    IF IsZero(a) THEN b
    ELSE IF IsZero(b) THEN a
    ELSE LET e == IF a.e < b.e THEN a.e ELSE b.e
         IN  RoundToDouble(NatAdd(NatShl(a.m, a.e - e), NatShl(b.m, b.e - e)),
                           e, FALSE)

\* -1, 0, 1 as a < b, a = b, a > b
DCmp(a, b) ==
    IF IsZero(a) THEN (IF IsZero(b) THEN 0 ELSE -1)
    ELSE IF IsZero(b) THEN 1
    ELSE IF a.e < b.e THEN -1
    ELSE IF a.e > b.e THEN 1
    ELSE NatCmp(a.m, b.m)

DLe(a, b) == DCmp(a, b) <= 0
DLt(a, b) == DCmp(a, b) < 0

\* numpy.rint: the nearest integer, ties to even, as a binary64
DRint(a) ==
    IF IsZero(a) \/ a.e >= 0 THEN a
    ELSE LET s    == 0 - a.e
             q    == NatShr(a.m, s)
             half == NatBit(a.m, s - 1) = 1
             low  == NatLowBits(a.m, s - 1)
             up   == half /\ (low \/ NatIsOdd(q))
             r    == IF up THEN NatAdd(q, NatFromInt(1)) ELSE q
         IN  IF r = << >> THEN DZero ELSE RoundToDouble(r, 0, FALSE)

\* numpy.round(a, decimals) of a binary64 for decimals >= 0:
\* rint(a * 10^decimals) / 10^decimals
DRound(a, decimals) ==
    DDivInt(DRint(DMul(a, DFromInt(10 ^ decimals))), 10 ^ decimals)

\* ------------------------------------------------------------------------
\* A binary64 as text, and back.  Text is a sequence of one-character
\* strings.  The digits are the shortest decimal that reads back as the same
\* binary64 (what repr(float) and numpy's float-to-str print), generated by
\* the free-format digit generation of Steele-White and Burger-Dybvig over
\* exact naturals; a digit string ds with decpt stands for
\* 0.d1 d2 ... dn * 10^decpt.

DigitChar == << "0", "1", "2", "3", "4", "5", "6", "7", "8", "9" >>

NatTen(a) == NatMulSmall(a, 10)

\* st = [r, s, mp, mm, k, ok]: the value is r / s, the gaps to the
\* neighbouring binary64s are mp / s above and mm / s below, ok says whether
\* the ends of the rounding interval read back as the value (even mantissa).
DigitStart(d) ==
    LET pow2 == d.m = NatShl(NatFromInt(1), MantBits - 1)
        ok   == ~ NatIsOdd(d.m)
    IN  IF d.e >= 0
        THEN IF ~ pow2
             THEN [r  |-> NatShl(d.m, d.e + 1), s |-> NatFromInt(2),
                   mp |-> NatShl(NatFromInt(1), d.e),
                   mm |-> NatShl(NatFromInt(1), d.e), k |-> 0, ok |-> ok]
             ELSE [r  |-> NatShl(d.m, d.e + 2), s |-> NatFromInt(4),
                   mp |-> NatShl(NatFromInt(1), d.e + 1),
                   mm |-> NatShl(NatFromInt(1), d.e), k |-> 0, ok |-> ok]
        ELSE IF ~ pow2
             THEN [r  |-> NatShl(d.m, 1), s |-> NatShl(NatFromInt(1), 1 - d.e),
                   mp |-> NatFromInt(1), mm |-> NatFromInt(1),
                   k |-> 0, ok |-> ok]
             ELSE [r  |-> NatShl(d.m, 2), s |-> NatShl(NatFromInt(1), 2 - d.e),
                   mp |-> NatFromInt(2), mm |-> NatFromInt(1),
                   k |-> 0, ok |-> ok]

\* whether r + mp reaches s (the upper end of the interval is >= 1)
HighReached(r, mp, s, ok) ==
    IF ok THEN NatCmp(NatAdd(r, mp), s) >= 0 ELSE NatCmp(NatAdd(r, mp), s) > 0

RECURSIVE DigitScaleUp(_)
DigitScaleUp(st) ==
    IF HighReached(st.r, st.mp, st.s, st.ok)
    THEN DigitScaleUp([st EXCEPT !.s = NatTen(st.s), !.k = st.k + 1])
    ELSE st

RECURSIVE DigitScaleDown(_)
DigitScaleDown(st) ==
    IF ~ HighReached(NatTen(st.r), NatTen(st.mp), st.s, st.ok)
    THEN DigitScaleDown([st EXCEPT !.r = NatTen(st.r), !.mp = NatTen(st.mp),
                                   !.mm = NatTen(st.mm), !.k = st.k - 1])
    ELSE st

\* quotient digit and remainder of n by s, for n < 10 * s
RECURSIVE DigitDivMod(_, _, _)
DigitDivMod(n, s, q) ==
    IF NatCmp(n, s) < 0 THEN [q |-> q, r |-> n]
    ELSE DigitDivMod(NatSub(n, s), s, q + 1)

RECURSIVE DigitGenerate(_)
DigitGenerate(st) ==
    LET qr  == DigitDivMod(NatTen(st.r), st.s, 0)
        mp  == NatTen(st.mp)
        mm  == NatTen(st.mm)
        tc1 == IF st.ok THEN NatCmp(qr.r, mm) <= 0 ELSE NatCmp(qr.r, mm) < 0
        tc2 == HighReached(qr.r, mp, st.s, st.ok)
    IN  IF ~ tc1 /\ ~ tc2
        THEN << qr.q >>
               \o DigitGenerate([st EXCEPT !.r = qr.r, !.mp = mp, !.mm = mm])
        ELSE IF tc1 /\ ~ tc2 THEN << qr.q >>
        ELSE IF ~ tc1 /\ tc2 THEN << qr.q + 1 >>
        ELSE IF NatCmp(NatShl(qr.r, 1), st.s) < 0 THEN << qr.q >>
        ELSE << qr.q + 1 >>

ShortestDigits(d) ==
    LET st == DigitScaleDown(DigitScaleUp(DigitStart(d)))
    IN  [ds |-> DigitGenerate(st), decpt |-> st.k]

RECURSIVE IntDigits(_)
IntDigits(n) ==
    IF n < 10 THEN << n >> ELSE IntDigits(n \div 10) \o << n % 10 >>

DigitText(ds) == [i \in 1..Len(ds) |-> DigitChar[ds[i] + 1]]

Zeros(n) == [i \in 1..n |-> "0"]

\* str(n) of an int n >= 0
FormatInt(n) == DigitText(IntDigits(n))

\* repr of a binary64: fixed notation for 1e-4 <= value < 1e16, else
\* d.ddde-XX with an exponent of at least two digits
FormatDigits(sd) ==
    LET n  == Len(sd.ds)
        t  == DigitText(sd.ds)
        ex == sd.decpt - 1
        ax == IF ex < 0 THEN 0 - ex ELSE ex
    IN  IF sd.decpt > -4 /\ sd.decpt <= 16
        THEN IF sd.decpt <= 0
             THEN << "0", "." >> \o Zeros(0 - sd.decpt) \o t
             ELSE IF sd.decpt >= n
             THEN t \o Zeros(sd.decpt - n) \o << ".", "0" >>
             ELSE SubSeq(t, 1, sd.decpt) \o << "." >>
                    \o SubSeq(t, sd.decpt + 1, n)
        ELSE << t[1] >>
               \o (IF n > 1 THEN << "." >> \o SubSeq(t, 2, n) ELSE << >>)
               \o << "e", IF ex < 0 THEN "-" ELSE "+" >>
               \o (IF ax < 10 THEN << "0" >> ELSE << >>)
               \o FormatInt(ax)

FormatDouble(d) ==
    IF IsZero(d) THEN << "0", ".", "0" >> ELSE FormatDigits(ShortestDigits(d))

CharDigit(c) == CHOOSE v \in 0..9 : DigitChar[v + 1] = c

IsDigitChar(c) == \E v \in 0..9 : DigitChar[v + 1] = c

\* the position of the first c in text t, or Len(t) + 1
RECURSIVE FindChar(_, _, _)
FindChar(t, c, i) ==
    IF i > Len(t) THEN i ELSE IF t[i] = c THEN i ELSE FindChar(t, c, i + 1)

\* Each step's result is looked at before the next step starts, so that the
\* evaluation does not nest one pending step inside the other.
RECURSIVE NatFromDigits(_, _)
NatFromDigits(t, acc) ==
    IF t = << >> THEN acc
    ELSE LET next == NatMulSmallC(acc, 10, CharDigit(t[1]))
         IN  IF next = << >> THEN NatFromDigits(Tail(t), << >>)
             ELSE NatFromDigits(Tail(t), next)

RECURSIVE IntFromDigits(_, _)
IntFromDigits(t, acc) ==
    IF t = << >> THEN acc
    ELSE IntFromDigits(Tail(t), acc * 10 + CharDigit(t[1]))

\* int(text) of an unsigned decimal
ParseInt(t) == IntFromDigits(t, 0)

RECURSIVE NatTimesTen(_, _)
NatTimesTen(a, j) ==
    IF j = 0 \/ a = << >> THEN a ELSE NatTimesTen(NatTen(a), j - 1)

\* floor(a / 10^j) and whether anything was cut off
RECURSIVE NatOverTen(_, _, _)
NatOverTen(a, j, cut) ==
    IF j = 0 THEN [q |-> a, cut |-> cut]
    ELSE LET qr == NatDivMod(a, 10)
         IN  IF qr.r = 0 /\ ~ cut THEN NatOverTen(qr.q, j - 1, FALSE)
             ELSE NatOverTen(qr.q, j - 1, TRUE)

\* the binary64 nearest n * 10^k (correctly rounded, as float(text) is)
DecimalToDouble(n, k) ==
    IF n = << >> THEN DZero
    ELSE IF k >= 0 THEN RoundToDouble(NatTimesTen(n, k), 0, FALSE)
    ELSE LET sh == MantBits + 3 + 4 * (0 - k)
             qc == NatOverTen(NatShl(n, sh), 0 - k, FALSE)
         IN  RoundToDouble(qc.q, 0 - sh, qc.cut)

\* float(text) of the texts FormatDouble writes: digits, an optional
\* fraction and an optional exponent
ParseDouble(t) ==
    LET epos  == FindChar(t, "e", 1)
        mant  == SubSeq(t, 1, epos - 1)
        dot   == FindChar(mant, ".", 1)
        whole == SubSeq(mant, 1, dot - 1)
        frac  == SubSeq(mant, dot + 1, Len(mant))
        etext == SubSeq(t, epos + 1, Len(t))
        ex    == IF etext = << >> THEN 0
                 ELSE IF etext[1] = "-" THEN 0 - ParseInt(Tail(etext))
                 ELSE IF etext[1] = "+" THEN ParseInt(Tail(etext))
                 ELSE ParseInt(etext)
    IN  DecimalToDouble(NatFromDigits(whole \o frac, << >>), ex - Len(frac))

\* ------------------------------------------------------------------------
\* numpy, as forecast uses it

\* An array holds its elements: they are computed once, when the array is
\* built, and not again at every use.
Array(f) == f \o << >>

\* numpy.pi
Pi == [m |-> <<11544, 4368, 8117, 1608>>, e |-> -51]

\* numpy.linspace(0, stop, num)[i] for 0 <= i < num: i * (stop / (num - 1)),
\* and the last element is stop itself
NpLinspace(stop, num, i) ==
    IF i = num - 1 THEN stop ELSE DMul(DFromInt(i), DDivInt(stop, num - 1))

\* numpy.sin at the 24 points of linspace(0, pi, 24): the correctly rounded
\* sine of each binary64 argument.  sin(0) is 0; sin(numpy.pi) is not, since
\* numpy.pi is the binary64 below pi: it is 1.2246467991473532e-16.
\* (A numpy whose vectorised sine is not correctly rounded may differ from
\* an entry in its last bit; sin(0) = 0, sin(numpy.pi) > 0 and the values'
\* order are the same in any.)
SinTable ==
    <<
       [x |-> [m |-> << >>, e |-> 0],
        y |-> [m |-> << >>, e |-> 0]],
       [x |-> [m |-> <<15154, 10874, 15619, 1118>>, e |-> -55],
        y |-> [m |-> <<3850, 4441, 7818, 1115>>, e |-> -55]],
       [x |-> [m |-> <<15154, 10874, 15619, 1118>>, e |-> -54],
        y |-> [m |-> <<9318, 13487, 1434, 1105>>, e |-> -54]],
       [x |-> [m |-> <<6347, 8120, 7045, 1678>>, e |-> -54],
        y |-> [m |-> <<9394, 9108, 13940, 1631>>, e |-> -54]],
       [x |-> [m |-> <<15154, 10874, 15619, 1118>>, e |-> -53],
        y |-> [m |-> <<14282, 5238, 1768, 1064>>, e |-> -53]],
       [x |-> [m |-> <<10750, 9497, 11332, 1398>>, e |-> -53],
        y |-> [m |-> <<14319, 8419, 7669, 1292>>, e |-> -53]],
       [x |-> [m |-> <<6347, 8120, 7045, 1678>>, e |-> -53],
        y |-> [m |-> <<5593, 10920, 12321, 1496>>, e |-> -53]],
       [x |-> [m |-> <<1944, 6743, 2758, 1958>>, e |-> -53],
        y |-> [m |-> <<15529, 11813, 2528, 1673>>, e |-> -53]],
       [x |-> [m |-> <<15154, 10874, 15619, 1118>>, e |-> -52],
        y |-> [m |-> <<15113, 3025, 6372, 1818>>, e |-> -53]],
       [x |-> [m |-> <<4760, 1994, 13476, 1258>>, e |-> -52],
        y |-> [m |-> <<4743, 614, 12294, 1929>>, e |-> -53]],
       [x |-> [m |-> <<10750, 9497, 11332, 1398>>, e |-> -52],
        y |-> [m |-> <<9590, 7248, 2690, 2005>>, e |-> -53]],
       [x |-> [m |-> <<357, 617, 9189, 1538>>, e |-> -52],
        y |-> [m |-> <<16123, 14324, 3696, 2043>>, e |-> -53]],
       [x |-> [m |-> <<6347, 8120, 7045, 1678>>, e |-> -52],
        y |-> [m |-> <<16123, 14324, 3696, 2043>>, e |-> -53]],
       [x |-> [m |-> <<12337, 15623, 4901, 1818>>, e |-> -52],
        y |-> [m |-> <<9591, 7248, 2690, 2005>>, e |-> -53]],
       [x |-> [m |-> <<1944, 6743, 2758, 1958>>, e |-> -52],
        y |-> [m |-> <<4744, 614, 12294, 1929>>, e |-> -53]],
       [x |-> [m |-> <<3967, 7123, 307, 1049>>, e |-> -51],
        y |-> [m |-> <<15113, 3025, 6372, 1818>>, e |-> -53]],
       [x |-> [m |-> <<15154, 10874, 15619, 1118>>, e |-> -51],
        y |-> [m |-> <<15530, 11813, 2528, 1673>>, e |-> -53]],
       [x |-> [m |-> <<9957, 14626, 14547, 1188>>, e |-> -51],
        y |-> [m |-> <<5595, 10920, 12321, 1496>>, e |-> -53]],
       [x |-> [m |-> <<4760, 1994, 13476, 1258>>, e |-> -51],
        y |-> [m |-> <<14321, 8419, 7669, 1292>>, e |-> -53]],
       [x |-> [m |-> <<15947, 5745, 12404, 1328>>, e |-> -51],
        y |-> [m |-> <<14285, 5238, 1768, 1064>>, e |-> -53]],
       [x |-> [m |-> <<10750, 9497, 11332, 1398>>, e |-> -51],
        y |-> [m |-> <<9400, 9108, 13940, 1631>>, e |-> -54]],
       [x |-> [m |-> <<5554, 13249, 10260, 1468>>, e |-> -51],
        y |-> [m |-> <<9318, 13487, 1434, 1105>>, e |-> -54]],
       [x |-> [m |-> <<357, 617, 9189, 1538>>, e |-> -51],
        y |-> [m |-> <<3852, 4441, 7818, 1115>>, e |-> -55]],
       [x |-> [m |-> <<11544, 4368, 8117, 1608>>, e |-> -51],
        y |-> [m |-> <<7175, 3153, 8803, 1129>>, e |-> -105]]
    >>

NpSin(a) == (CHOOSE p \in { SinTable[i] : i \in 1..Len(SinTable) } : p.x = a).y

\* numpy.clip(a, lo, hi)
NpClip(a, lo, hi) == IF DLt(a, lo) THEN lo ELSE IF DLt(hi, a) THEN hi ELSE a

\* (variants for comparison: one repetition more; and numpy.repeat(a, reps),
\* which repeats each element in place)
NpTileOneMore(a, reps) ==
    Array([i \in 1..(Len(a) * (reps + 1)) |-> a[((i - 1) % Len(a)) + 1]])

NpRepeat(a, reps) ==
    Array([i \in 1..(Len(a) * reps) |-> a[((i - 1) \div reps) + 1]])

\* numpy.tile(a, reps) of a one-dimensional a
NpTile(a, reps) ==
    Array([i \in 1..(Len(a) * reps) |-> a[((i - 1) % Len(a)) + 1]])

\* numpy.random.randint(low, high): the generator masks raw draws and
\* rejects them until one is within high - low - 1; raws are the masked
\* draws in the order drawn
RECURSIVE FirstAccepted(_, _)
FirstAccepted(raws, top) ==
    IF raws[1] <= top THEN raws[1] ELSE FirstAccepted(Tail(raws), top)

NpRandInt(low, high, raws) == low + FirstAccepted(raws, high - low - 1)

\* (variant for comparison: a range one wider, as if high were included)
NpUniformInclusive(low, high, u) ==
    DAdd(DFromInt(low), DMul(DFromInt(high - low + 1), u))

\* numpy.random.uniform(low, high) for integers low, high:
\* low + (high - low) * u, u the generator's next double in [0, 1)
NpUniform(low, high, u) ==
    DAdd(DFromInt(low), DMul(DFromInt(high - low), u))

\* ------------------------------------------------------------------------
\* datetime: [day, second, microsecond] as Python keeps it (the proleptic
\* ordinal of the date, the second of the day, the microsecond of the second)

SecondsPerDay == 24 * 3600

\* (variant for comparison: the hours added to the second of the day alone,
\* the date left as it is)
DatetimePlusHoursSameDay(dt, h) ==
    [day         |-> dt.day,
     second      |-> (dt.second + h * 3600) % SecondsPerDay,
     microsecond |-> dt.microsecond]

\* dt + timedelta(hours = h); timedelta normalises h hours to days and
\* seconds
DatetimePlusHours(dt, h) ==
    LET sec == dt.second + (h % 24) * 3600
    IN  [day         |-> dt.day + h \div 24 + sec \div SecondsPerDay,
         second      |-> sec % SecondsPerDay,
         microsecond |-> dt.microsecond]

\* ------------------------------------------------------------------------
\* class SimplePVForecast

\* __init__: the five parameters are stored as given
SimplePVForecast(latitude, longitude, capacity_kw, mounting_type, performance_ratio) ==
    [latitude |-> latitude, longitude |-> longitude,
     capacity_kw |-> capacity_kw, mounting_type |-> mounting_type,
     performance_ratio |-> performance_ratio]

\* (variant for comparison: a curve that reads the latitude as well)
DailyPowerAtLatitude(self) ==
    Array([h \in 1..24 |->
             DMul(DMul(self.capacity_kw, self.performance_ratio),
                  DMul(self.latitude,
                       NpClip(NpSin(NpLinspace(Pi, 24, h - 1)),
                              DZero, DFromInt(1))))])

\* daily_power[h + 1] for hour h: the product capacity_kw * performance_ratio
\* is taken first, then multiplied into each clipped sine
DailyPower(self) ==
    LET scale == DMul(self.capacity_kw, self.performance_ratio)
    IN  Array([h \in 1..24 |->
                 DMul(scale, NpClip(NpSin(NpLinspace(Pi, 24, h - 1)),
                                    DZero, DFromInt(1)))])

ForecastColumns ==
    << "time", "forecast_power_kw", "cloud_cover_percent", "temperature_c",
       "DNI", "DHI" >>

\* A DataFrame is its column names and its columns, both in order.
\* forecast(days) at the instant now, with the draws of numpy's generator:
\* draws.cloud[i] the raw draws of randint for row i, draws.temperature[i],
\* draws.dni[i], draws.dhi[i] the generator's doubles for row i.
Forecast(self, days, now, draws) ==
    LET hours == days * 24
        times == Array([i \in 1..hours |-> DatetimePlusHours(now, i - 1)])
        forecast_power_kw   == NpTile(DailyPower(self), days)
        cloud_cover_percent ==
            Array([i \in 1..hours |-> NpRandInt(0, 100, draws.cloud[i])])
        temperature_c ==
            Array([i \in 1..hours |-> NpUniform(0, 30, draws.temperature[i])])
        dni == Array([i \in 1..hours |-> NpUniform(0, 1000, draws.dni[i])])
        dhi == Array([i \in 1..hours |-> NpUniform(0, 500, draws.dhi[i])])
    IN  [columns |-> ForecastColumns,
         data    |-> << times, forecast_power_kw, cloud_cover_percent,
                        temperature_c, dni, dhi >>]

\* ------------------------------------------------------------------------
\* pandas, as the output block uses it.  Python names refer to objects; the
\* objects of one script run are kept in a heap (a sequence of DataFrames),
\* and a name holds an index into it, so that a change made through one
\* name is seen through every name of the same object.

Rows(df) == Len(df.data[1])

\* (variant for comparison: display_df = forecast, a second name of the
\* same object)
DataFrameAlias(heap, ref) == [heap |-> heap, ref |-> ref]

\* df.copy(): a new object with the same content; the heap with it, and its
\* reference
DataFrameCopy(heap, ref) ==
    [heap |-> Append(heap, heap[ref]), ref |-> Len(heap) + 1]

\* df.columns = names
SetColumns(heap, ref, names) ==
    [heap EXCEPT ![ref] = [columns |-> names, data |-> heap[ref].data]]

ColumnIndex(df, name) == CHOOSE c \in 1..Len(df.columns) : df.columns[c] = name

\* df[name]
Column(df, name) == df.data[ColumnIndex(df, name)]

\* df[name] = values, for a column df has
SetColumn(heap, ref, name, values) ==
    [heap EXCEPT ![ref] =
        [columns |-> heap[ref].columns,
         data    |-> [heap[ref].data EXCEPT ![ColumnIndex(heap[ref], name)] = values]]]

\* Series.round(decimals) of a float64 column
RoundFloats(col, decimals) ==
    Array([i \in 1..Len(col) |-> DRound(col[i], decimals)])

\* Series.round(0).astype(int) of an int64 column: rounding an integer
\* column to no decimals, and the cast, leave the integers as they are
RoundInts(col) == Array([i \in 1..Len(col) |-> col[i]])

\* (texts are kept in ASCII: "Temp (C)" is the source's column name without
\* its degree sign)
DisplayColumns ==
    << "Zeit", "Leistung (kW)", "Wolken (%)", "Temp (C)", "DNI", "DHI" >>

\* A datetime cell of the CSV is kept as the fields of the datetime: the
\* calendar rendering of the ordinal is not modelled.
FormatTime(dt) == << dt >>

\* DataFrame.to_csv(index = False): the header row, then one row per entry;
\* a row is the sequence of its cells, a cell is the column name (header) or
\* the text of the value
ToCsv(df) ==
    << df.columns >>
      \o [i \in 1..Rows(df) |->
            << FormatTime(df.data[1][i]),
               FormatDouble(df.data[2][i]),
               FormatInt(df.data[3][i]),
               FormatDouble(df.data[4][i]),
               FormatDouble(df.data[5][i]),
               FormatDouble(df.data[6][i]) >>]

\* reading the CSV text back: the row count and the columns' values
ParseCsv(csv) ==
    LET n == Len(csv) - 1
    IN  [columns |-> csv[1],
         data    |-> << Array([i \in 1..n |-> csv[i + 1][1][1]]),
                        Array([i \in 1..n |-> ParseDouble(csv[i + 1][2])]),
                        Array([i \in 1..n |-> ParseInt(csv[i + 1][3])]),
                        Array([i \in 1..n |-> ParseDouble(csv[i + 1][4])]),
                        Array([i \in 1..n |-> ParseDouble(csv[i + 1][5])]),
                        Array([i \in 1..n |-> ParseDouble(csv[i + 1][6])]) >>]

\* The output block (the body of `if "forecast" in st.session_state`) for
\* the stored DataFrame: what it shows, and the stored object after it.
\* The name forecast refers to object 1; display_df to what copy() returns:
\* o = [heap, ref] is the heap and the object display_df refers to.

\* line 146: display_df.columns = [...]
RenameColumns(o) ==
    [heap |-> SetColumns(o.heap, o.ref, DisplayColumns), ref |-> o.ref]

\* lines 147 and 149: display_df[name] = display_df[name].round(decimals)
RoundColumn(o, name, decimals) ==
    [heap |-> SetColumn(o.heap, o.ref, name,
                        RoundFloats(Column(o.heap[o.ref], name), decimals)),
     ref  |-> o.ref]

\* line 148: display_df[name] = display_df[name].round(0).astype(int)
RoundIntColumn(o, name) ==
    [heap |-> SetColumn(o.heap, o.ref, name,
                        RoundInts(Column(o.heap[o.ref], name))),
     ref  |-> o.ref]

\* lines 150-159: the table of display_df, and the CSV of forecast
ShowAndExport(o) ==
    [forecast   |-> o.heap[1],
     display_df |-> o.heap[o.ref],
     csv        |-> ToCsv(o.heap[1])]

OutputBlock(stored) ==
    ShowAndExport(
        RoundColumn(
            RoundIntColumn(
                RoundColumn(RenameColumns(DataFrameCopy(<< stored >>, 1)),
                            "Leistung (kW)", 2),
                "Wolken (%)"),
            "Temp (C)", 1))

\* ------------------------------------------------------------------------
\* The inputs the model draws from

\* doubles of the generator in [0, 1), each k / 2^53 for an integer k as
\* the generator makes them: 0, 2^-53, 0.5, 1 - 2^-53 (the largest),
\* 1111999897873515 / 2^53 (0.1234567889999999), 0.9876543210123
UnitSamples ==
    << [m |-> << >>, e |-> 0],
       [m |-> <<0, 0, 0, 1024>>, e |-> -105],
       [m |-> <<0, 0, 0, 1024>>, e |-> -53],
       [m |-> <<16383, 16383, 16383, 2047>>, e |-> -53],
       [m |-> <<9048, 7397, 11731, 2022>>, e |-> -56],
       [m |-> <<1917, 12352, 11731, 2022>>, e |-> -53] >>

\* masked raw draws of randint, each ending with one that is accepted
RawSamples == << << 0 >>, << 127, 100, 99 >>, << 50 >>, << 101, 7 >>, << 99 >> >>

Pick(samples, n) == samples[(n % Len(samples)) + 1]

\* one of the generator's streams, as long as forecast needs it
Draws(hours, seed) ==
    [cloud       |-> Array([i \in 1..hours |-> Pick(RawSamples, seed + i)]),
     temperature |-> Array([i \in 1..hours |-> Pick(UnitSamples, seed + 7 * i + 4)]),
     dni         |-> Array([i \in 1..hours |-> Pick(UnitSamples, 2 * seed + i + 1)]),
     dhi         |-> Array([i \in 1..hours |-> Pick(UnitSamples, seed + 5 * i + 3)])]

\* ------------------------------------------------------------------------
\* The Streamlit script.  Streamlit keeps one st.session_state per browser
\* session and runs the whole script once per interaction of that session:
\* with submitted true when the form's button was pressed, false otherwise.

Sessions == { "s1", "s2" }

\* st.session_state of a session: without the key "forecast", or with it
SessionEmpty == [has_forecast |-> FALSE]
SessionWith(df) == [has_forecast |-> TRUE, forecast |-> df]

\* the number of days the script asks forecast for
AppDays == 14

\* number_input returns a float; v is the value in hundredths
NumberInput(v) == DDivInt(DFromInt(v), 100)

Latitudes  == << 4820, 4500, 4900 >>
Longitudes == << 1640, 1800, 1400 >>
Capacities == << 10, 50, 1 >>
Mountings ==
    << "Flachdach", "Schraegdach Sued", "Schraegdach Suedwest", "Fassade" >>
PrPercents == << 85, 90, 70, 77 >>
Nows ==
    << [day |-> 739919, second |-> 54312, microsecond |-> 123456],
       [day |-> 739919, second |-> 86399, microsecond |-> 999999],
       [day |-> 739950, second |-> 0, microsecond |-> 0] >>

\* the k-th submission the model tries: the widgets' values, the instant
\* forecast runs at and the stream numpy's generator is at
Widgets(k) ==
    [latitude      |-> NumberInput(Pick(Latitudes, k)),
     longitude     |-> NumberInput(Pick(Longitudes, k)),
     capacity_kw   |-> Pick(Capacities, k),
     mounting_type |-> Pick(Mountings, k),
     pr_percent    |-> Pick(PrPercents, k),
     now           |-> Pick(Nows, k),
     seed          |-> k]

\* lines 93-100 when nothing raises: the model is built from the widgets
\* (the slider's integer capacity, pr_percent / 100) and asked for AppDays
\* days
Generate(w) ==
    Forecast(SimplePVForecast(w.latitude, w.longitude, DFromInt(w.capacity_kw),
                              w.mounting_type,
                              DDivInt(DFromInt(w.pr_percent), 100)),
             AppDays, w.now, Draws(AppDays * 24, w.seed))

\* what lines 93-100 end in: the DataFrame, or an exception raised from
\* the constructor or from forecast
Returned(df) == [raised |-> FALSE, value |-> df]
Raised(e) == [raised |-> TRUE, exception |-> e]

Exceptions == { "MemoryError in __init__", "MemoryError in forecast" }

SuccessMessage == [kind |-> "success", text |-> << "Prognose berechnet!" >>]
ErrorMessage(e) == [kind |-> "error", text |-> << "Fehler: ", e >>]

\* (variants of lines 90-104 for comparison: `except: pass`; storing only
\* when nothing is stored yet; dropping the stored forecast on an exception)
SubmittedBlockSilent(state, submitted, outcome) ==
    IF ~ submitted THEN [state |-> state, messages |-> << >>, calls |-> 0]
    ELSE IF outcome.raised
    THEN [state |-> state, messages |-> << >>, calls |-> 1]
    ELSE [state    |-> SessionWith(outcome.value),
          messages |-> << SuccessMessage >>,
          calls    |-> 1]

SubmittedBlockKeepFirst(state, submitted, outcome) ==
    IF ~ submitted THEN [state |-> state, messages |-> << >>, calls |-> 0]
    ELSE IF outcome.raised
    THEN [state    |-> state,
          messages |-> << ErrorMessage(outcome.exception) >>,
          calls    |-> 1]
    ELSE [state    |-> IF state.has_forecast THEN state
                       ELSE SessionWith(outcome.value),
          messages |-> << SuccessMessage >>,
          calls    |-> 1]

SubmittedBlockDrop(state, submitted, outcome) ==
    IF ~ submitted THEN [state |-> state, messages |-> << >>, calls |-> 0]
    ELSE IF outcome.raised
    THEN [state    |-> SessionEmpty,
          messages |-> << ErrorMessage(outcome.exception) >>,
          calls    |-> 1]
    ELSE [state    |-> SessionWith(outcome.value),
          messages |-> << SuccessMessage >>,
          calls    |-> 1]

\* lines 90-104: the session state and the messages after the block, and
\* how many times lines 93-100 ran
SubmittedBlock(state, submitted, outcome) ==
    IF ~ submitted THEN [state |-> state, messages |-> << >>, calls |-> 0]
    ELSE IF outcome.raised
    THEN [state    |-> state,
          messages |-> << ErrorMessage(outcome.exception) >>,
          calls    |-> 1]
    ELSE [state    |-> SessionWith(outcome.value),
          messages |-> << SuccessMessage >>,
          calls    |-> 1]

\* The submissions the model tries, with what each generates and shows.
\* Generation and rendering are functions of their arguments; each is
\* evaluated once per submission here, and the actions look the result up.

MaxSubmission == 1

Submissions == 0..MaxSubmission

TableRow(df, o) == [generated |-> df, output |-> o, parsed |-> ParseCsv(o.csv)]

TableEntry(df) == TableRow(df, OutputBlock(df))

SubmissionTable ==
    Array([k \in 1..(MaxSubmission + 1) |-> TableEntry(Generate(Widgets(k - 1)))])

Generated(k) == SubmissionTable[k + 1].generated

\* OutputBlock(df), from the table where df is one of its DataFrames
Lookup(table, df) ==
    IF \E k \in 1..Len(table) : table[k].generated = df
    THEN table[CHOOSE k \in 1..Len(table) : table[k].generated = df].output
    ELSE OutputBlock(df)

Rendered(df) == Lookup(SubmissionTable, df)

\* ParseCsv(csv), from the table where csv is one of its exports
LookupParsed(table, csv) ==
    IF \E k \in 1..Len(table) : table[k].output.csv = csv
    THEN table[CHOOSE k \in 1..Len(table) : table[k].output.csv = csv].parsed
    ELSE ParseCsv(csv)

Parsed(csv) == LookupParsed(SubmissionTable, csv)

NoOutput == [shown |-> FALSE]

\* lines 107-159: nothing without a stored forecast; else the output block
\* on the stored object, which is left as the block leaves it
Shown(o) ==
    [state  |-> SessionWith(o.forecast),
     output |-> [shown |-> TRUE, display_df |-> o.display_df, csv |-> o.csv]]

OutputSection(state) ==
    IF ~ state.has_forecast THEN [state |-> state, output |-> NoOutput]
    ELSE Shown(Rendered(state.forecast))

\* one run of the script, from line 1 to the last line
RunEnd(b, o) ==
    [state |-> o.state,
     page  |-> [messages |-> b.messages, calls |-> b.calls,
                output |-> o.output, completed |-> TRUE]]

RunFrom(b) == RunEnd(b, OutputSection(b.state))

ScriptRun(state, submitted, outcome) ==
    RunFrom(SubmittedBlock(state, submitted, outcome))

\* ------------------------------------------------------------------------
\* State

VARIABLES
    session_state,  \* st.session_state of each session
    page,           \* what each session's last script run put on its page
    last_run,       \* the last script run: its session, submitted, raised
    last_success,   \* per session, what its last successful submission
                    \* generated (history, not program state)
    call,           \* a call of forecast: self, days, now, seed
    series,         \* what that call returned
    call2,          \* a second call, with the same capacity_kw,
                    \* performance_ratio and days
    series2         \* what the second call returned

vars == << session_state, page, last_run, last_success,
           call, series, call2, series2 >>

appVars == << session_state, page, last_run, last_success >>
genVars == << call, series, call2, series2 >>

NoRun == [ran |-> FALSE]
NoCall == [called |-> FALSE]
BlankPage ==
    [messages |-> << >>, calls |-> 0, output |-> NoOutput, completed |-> FALSE]

Init ==
    /\ session_state = [s \in Sessions |-> SessionEmpty]
    /\ page = [s \in Sessions |-> BlankPage]
    /\ last_run = NoRun
    /\ last_success = [s \in Sessions |-> SessionEmpty]
    /\ call = NoCall
    /\ series = NoCall
    /\ call2 = NoCall
    /\ series2 = NoCall

\* ------------------------------------------------------------------------
\* The application: script runs of the sessions

Outcomes ==
    { Returned(Generated(k)) : k \in Submissions }
      \cup { Raised(e) : e \in Exceptions }

\* One interaction of session s: the script runs once.
Interaction(s, submitted, outcome) ==
    \E r \in { ScriptRun(session_state[s], submitted, outcome) } :
        /\ session_state' = [session_state EXCEPT ![s] = r.state]
        /\ page' = [page EXCEPT ![s] = r.page]
        /\ last_run' = [ran |-> TRUE, session |-> s, submitted |-> submitted,
                        raised |-> submitted /\ outcome.raised,
                        exception |-> IF submitted /\ outcome.raised
                                      THEN outcome.exception ELSE ""]
        /\ last_success' =
              IF submitted /\ ~ outcome.raised
              THEN [last_success EXCEPT ![s] = SessionWith(outcome.value)]
              ELSE last_success

\* lines 93-100 are not reached when the button was not pressed
NotCalled == [reached |-> FALSE]

\* an interaction other than the form's button: a widget, a download, a
\* reload of the page
Rerun(s) ==
    /\ Interaction(s, FALSE, NotCalled)
    /\ UNCHANGED genVars

\* the form's button
Submit(s) ==
    /\ \E outcome \in Outcomes : Interaction(s, TRUE, outcome)
    /\ UNCHANGED genVars

Next == \E s \in Sessions : Rerun(s) \/ Submit(s)

Spec == Init /\ [][Next]_vars

\* ------------------------------------------------------------------------
\* The generator alone: calls of SimplePVForecast(...).forecast(days)

MaxDays == 2
MaxVariant == 1

\* capacity c and performance ratio p of the samples, days d, and variant v
\* of what forecast does not read for the power: location, mounting, the
\* instant and the generator's stream
CallOf(c, p, d, v) ==
    [called |-> TRUE,
     self   |-> SimplePVForecast(NumberInput(Pick(Latitudes, v)),
                                 NumberInput(Pick(Longitudes, v)),
                                 DFromInt(Capacities[c]),
                                 Pick(Mountings, v),
                                 DDivInt(DFromInt(PrPercents[p]), 100)),
     days   |-> d,
     now    |-> Pick(Nows, v),
     seed   |-> v]

ForecastOf(cl) ==
    Forecast(cl.self, cl.days, cl.now, Draws(cl.days * 24, cl.seed))

FirstCall ==
    /\ ~ call.called
    /\ \E c \in 1..Len(Capacities), p \in 1..Len(PrPercents),
          d \in 1..MaxDays, v \in 0..MaxVariant :
          /\ call' = CallOf(c, p, d, v)
          /\ series' = ForecastOf(CallOf(c, p, d, v))
    /\ UNCHANGED << call2, series2 >>
    /\ UNCHANGED appVars

SecondCall ==
    /\ call.called
    /\ ~ call2.called
    /\ \E v \in 0..MaxVariant :
          LET cl == [call EXCEPT
                       !.self = SimplePVForecast(
                                    NumberInput(Pick(Latitudes, v)),
                                    NumberInput(Pick(Longitudes, v)),
                                    call.self.capacity_kw,
                                    Pick(Mountings, v),
                                    call.self.performance_ratio),
                       !.now = Pick(Nows, v),
                       !.seed = v]
          IN  /\ call2' = cl
              /\ series2' = ForecastOf(cl)
    /\ UNCHANGED << call, series >>
    /\ UNCHANGED appVars

NextForecast == FirstCall \/ SecondCall

SpecForecast == Init /\ [][NextForecast]_vars

\* ------------------------------------------------------------------------
\* Properties of forecast, checked under SpecForecast

Power(df) == Column(df, "forecast_power_kw")

\* C1: forecast(days = d) returns d * 24 rows, every one of the six columns
\* of that length; the 14 days the application asks for give 336 rows
C1_RowCount ==
    /\ call.called =>
         /\ Len(series.data) = 6
         /\ Len(series.columns) = 6
         /\ \A c \in 1..Len(series.data) :
               Len(series.data[c]) = call.days * 24
    /\ \A c \in 1..6 : Len(Generated(0).data[c]) = 336

C1_Witness ==
    /\ call.called
    /\ call.days > 1
    /\ Len(Power(series)) = call.days * 24
    /\ Len(series.data[1]) = Len(series.data[6])

\* C2: forecast_power_kw has period 24: row i and row i + 24 hold the same
\* value wherever both exist
C2_Period24 ==
    call.called =>
        \A i \in 1..(call.days * 24 - 24) :
            Power(series)[i] = Power(series)[i + 24]

C2_Witness ==
    /\ call.called
    /\ call.days > 1
    /\ Power(series)[12] = Power(series)[36]
    /\ Power(series)[12] # Power(series)[1]

\* C3, as the specification states it: every forecast_power_kw value lies in
\* [0, capacity_kw * performance_ratio], hours 0 and 23 of each day hold
\* exactly 0 (the minimum), and the maximum is at hour 11 or 12
C3_RangeZeroEndsPeak ==
    call.called =>
        LET P   == Power(series)
            top == DMul(call.self.capacity_kw, call.self.performance_ratio)
        IN  /\ \A i \in 1..Len(P) : DLe(DZero, P[i]) /\ DLe(P[i], top)
            /\ \A i \in 1..Len(P) : (i - 1) % 24 \in { 0, 23 } => IsZero(P[i])
            /\ \E i \in 1..Len(P) :
                  /\ (i - 1) % 24 \in { 11, 12 }
                  /\ \A j \in 1..Len(P) : DLe(P[j], P[i])

\* C4: two calls with the same capacity_kw, performance_ratio and days
\* return the same forecast_power_kw column, whatever latitude, longitude,
\* mounting_type, the instant and the generator's draws are
C4_PowerOfCapacityRatioDays ==
    ( /\ call.called
      /\ call2.called
      /\ call2.self.capacity_kw = call.self.capacity_kw
      /\ call2.self.performance_ratio = call.self.performance_ratio
      /\ call2.days = call.days )
    => Power(series2) = Power(series)

C4_Witness ==
    /\ call.called
    /\ call2.called
    /\ call2.self.latitude # call.self.latitude
    /\ call2.self.longitude # call.self.longitude
    /\ call2.self.mounting_type # call.self.mounting_type
    /\ call2.now # call.now
    /\ Column(series2, "temperature_c") # Column(series, "temperature_c")
    /\ Column(series2, "cloud_cover_percent") # Column(series, "cloud_cover_percent")
    /\ Power(series2) = Power(series)

\* b is the instant one hour after a
OneHourAfter(a, b) ==
    /\ b.microsecond = a.microsecond
    /\ IF a.second + 3600 < 86400
       THEN b.day = a.day /\ b.second = a.second + 3600
       ELSE b.day = a.day + 1 /\ b.second = a.second + 3600 - 86400

\* a is an earlier instant than b
Earlier(a, b) ==
    \/ a.day < b.day
    \/ a.day = b.day /\ a.second < b.second
    \/ a.day = b.day /\ a.second = b.second /\ a.microsecond < b.microsecond

\* C8: row 0 carries the instant the generator ran, and each row's
\* timestamp is exactly one hour after the row before it, so the timestamps
\* increase strictly
C8_HourlyTimestamps ==
    call.called =>
        LET T == Column(series, "time")
        IN  /\ T[1] = call.now
            /\ \A i \in 1..(Len(T) - 1) :
                  OneHourAfter(T[i], T[i + 1]) /\ Earlier(T[i], T[i + 1])

C8_Witness ==
    /\ call.called
    /\ \E i \in 1..(call.days * 24 - 1) :
          /\ Column(series, "time")[i].day < Column(series, "time")[i + 1].day
          /\ Column(series, "time")[i + 1].second < 3600

\* C9: in every row cloud_cover_percent is an integer in [0, 100),
\* temperature_c is in [0, 30), DNI in [0, 1000) and DHI in [0, 500)
C9_WeatherRanges ==
    call.called =>
        \A i \in 1..(call.days * 24) :
            /\ Column(series, "cloud_cover_percent")[i] \in 0..99
            /\ DLe(DZero, Column(series, "temperature_c")[i])
            /\ DLt(Column(series, "temperature_c")[i], DFromInt(30))
            /\ DLe(DZero, Column(series, "DNI")[i])
            /\ DLt(Column(series, "DNI")[i], DFromInt(1000))
            /\ DLe(DZero, Column(series, "DHI")[i])
            /\ DLt(Column(series, "DHI")[i], DFromInt(500))

\* a call whose draws hold both ends: 0 and 99 for the cloud cover; for
\* each float column a zero and the generator's largest double, which
\* gives a value within 1 of the upper end
C9_Witness ==
    /\ call.called
    /\ \E i, j \in 1..(call.days * 24) :
          /\ Column(series, "cloud_cover_percent")[i] = 0
          /\ Column(series, "cloud_cover_percent")[j] = 99
    /\ \E i, j \in 1..(call.days * 24) :
          /\ IsZero(Column(series, "temperature_c")[i])
          /\ DLt(DFromInt(29), Column(series, "temperature_c")[j])
    /\ \E i, j \in 1..(call.days * 24) :
          /\ IsZero(Column(series, "DNI")[i])
          /\ DLt(DFromInt(999), Column(series, "DNI")[j])
    /\ \E i, j \in 1..(call.days * 24) :
          /\ IsZero(Column(series, "DHI")[i])
          /\ DLt(DFromInt(499), Column(series, "DHI")[j])

\* ------------------------------------------------------------------------
\* Properties of the application, checked under Spec

\* the page of the script run that came last
LastPage == page[last_run.session]

\* C5: a submission whose generation raises ends as a script run that went
\* through to its last line, ran lines 93-100 once, and shows one message:
\* the error message with the exception's text, and no success message
C5_ExceptionBecomesOneError ==
    (last_run.ran /\ last_run.submitted /\ last_run.raised) =>
        /\ LastPage.completed
        /\ LastPage.calls = 1
        /\ Len(LastPage.messages) = 1
        /\ LastPage.messages[1].kind = "error"
        /\ LastPage.messages[1].text = << "Fehler: ", last_run.exception >>
        /\ \A i \in 1..Len(LastPage.messages) :
              LastPage.messages[i].kind # "success"

C5_Witness ==
    /\ last_run.ran
    /\ last_run.submitted
    /\ last_run.raised
    /\ last_run.exception = "MemoryError in forecast"
    /\ LastPage.messages = << ErrorMessage("MemoryError in forecast") >>
    /\ LastPage.completed

\* C6: a step changes a session's stored series only if it is a successful
\* submission of that session, and then to the series just generated; after
\* every step each session holds the series of its last successful
\* submission (none if it had none), and a page that shows output shows
\* that series
C6_StoredOnlyByOwnSuccess ==
    [][\A s \in Sessions :
          /\ session_state'[s] # session_state[s] =>
                /\ last_run'.session = s
                /\ last_run'.submitted
                /\ ~ last_run'.raised
          /\ (last_run'.session = s /\ last_run'.submitted
                /\ ~ last_run'.raised) =>
                /\ session_state'[s].has_forecast
                /\ session_state'[s] = last_success'[s]
          /\ session_state'[s] = last_success'[s]
          /\ page'[s].output.shown =>
                /\ last_success'[s].has_forecast
                /\ page'[s].output.display_df
                      = Rendered(last_success'[s].forecast).display_df
                /\ page'[s].output.csv
                      = Rendered(last_success'[s].forecast).csv
      ]_vars

\* one session replaced its series by a second, different one and reran;
\* the other session, which submitted once, still holds its own
C6_Witness ==
    \E s, t \in Sessions :
        /\ s # t
        /\ last_run.ran /\ last_run.session = s /\ ~ last_run.submitted
        /\ session_state[s].has_forecast
        /\ session_state[t].has_forecast
        /\ session_state[s].forecast = Generated(1)
        /\ session_state[t].forecast = Generated(0)
        /\ page[s].output.shown
        /\ page[t].output.shown
        /\ page[s].output.csv # page[t].output.csv

\* C7: where a page shows output, the CSV is the export of the stored
\* series, not of the display copy: its first row is the header
\* time,forecast_power_kw,cloud_cover_percent,temperature_c,DNI,DHI, one row
\* follows per entry, reading it back gives the stored row count and the
\* stored forecast_power_kw values exactly, and the stored series is still
\* what the submission generated
C7_CsvOfStoredSeries ==
    \A s \in Sessions :
        page[s].output.shown =>
            /\ session_state[s].has_forecast
            /\ session_state[s] = last_success[s]
            /\ page[s].output.csv[1] = ForecastColumns
            /\ page[s].output.csv[1] =
                  << "time", "forecast_power_kw", "cloud_cover_percent",
                     "temperature_c", "DNI", "DHI" >>
            /\ Len(page[s].output.csv) = 1 + Rows(session_state[s].forecast)
            /\ Rows(Parsed(page[s].output.csv))
                  = Rows(session_state[s].forecast)
            /\ Power(Parsed(page[s].output.csv))
                  = Power(session_state[s].forecast)
            /\ \E i \in 1..Rows(session_state[s].forecast) :
                  page[s].output.csv[i + 1][2] #
                      FormatDouble(Column(page[s].output.display_df,
                                          "Leistung (kW)")[i])

\* a page whose display copy differs from the stored series by rounding,
\* with the CSV reading back as the stored one
C7_Witness ==
    \E s \in Sessions :
        /\ page[s].output.shown
        /\ Rows(session_state[s].forecast) = 336
        /\ Column(page[s].output.display_df, "Leistung (kW)")
              # Power(session_state[s].forecast)
        /\ Column(page[s].output.display_df, "Temp (C)")
              # Column(session_state[s].forecast, "temperature_c")
        /\ Power(Parsed(page[s].output.csv)) = Power(session_state[s].forecast)

\* C10: a submission whose generation raises leaves the session's stored
\* forecast as it was; if there was one, the run shows the output of that
\* forecast together with the error message; if there was none, there is
\* none after it and the run shows no output
C10_FailedSubmissionKeepsStored ==
    [][\A s \in Sessions :
          (last_run'.session = s /\ last_run'.submitted /\ last_run'.raised)
          => /\ session_state'[s] = session_state[s]
             /\ \E i \in 1..Len(page'[s].messages) :
                   page'[s].messages[i].kind = "error"
             /\ IF session_state[s].has_forecast
                THEN /\ page'[s].output.shown
                     /\ page'[s].output.csv
                           = Rendered(session_state[s].forecast).csv
                     /\ page'[s].output.display_df
                           = Rendered(session_state[s].forecast).display_df
                ELSE /\ ~ session_state'[s].has_forecast
                     /\ ~ page'[s].output.shown
      ]_vars

\* both cases at once: one session's failed submission shows the error with
\* the output of its earlier forecast, the other's shows the error alone
C10_Witness ==
    \E s, t \in Sessions :
        /\ last_run.ran /\ last_run.session = s
        /\ last_run.submitted /\ last_run.raised
        /\ session_state[s].has_forecast
        /\ page[s].messages[1].kind = "error"
        /\ page[s].output.shown
        /\ ~ session_state[t].has_forecast
        /\ Len(page[t].messages) = 1
        /\ page[t].messages[1].kind = "error"
        /\ ~ page[t].output.shown

====
